---------------------------- MODULE Spec2Model ----------------------------
(***************************************************************************)
(* Model of linda (src/src/main.rs): the command-line grammar              *)
(*   <marker><field>,<field>,...                                           *)
(* tokenized by Cmd::from_str, classified by Cmd::kind_of, rendered by     *)
(* Cmd::to_sql and turned into a record by Tr::new, plus the two CLI       *)
(* operations of cli::call ("exec" and "init").                            *)
(*                                                                         *)
(* A line of text is a sequence of characters.  An ASCII character is the  *)
(* one-character string of itself; any other code point is the string of   *)
(* its name, "U+2003", so that every character of a Rust str can be held.  *)
(***************************************************************************)
EXTENDS Integers, Sequences, FiniteSets, TLC

VARIABLES command, text, pc, cmd, kind, sql, transaction, log, db, panicMsg

vars == <<command, text, pc, cmd, kind, sql, transaction, log, db, panicMsg>>

(***************************************************************************)
(* Bounds of the model.                                                    *)
(***************************************************************************)
\* Every line over Alphabet of at most MaxLen characters is an input.
MaxLen == 4

\* The values Local::now() may return.
Clock == {"T0", "T1"}

Alphabet == {"&", ">", "+", ",", " ", "1", "-", "a"}

\* Str("abc") is not available in TLA+: a text is written as a tuple.
SomeWord == <<"s", "o", "m", "e", " ", "w", "o", "r", "d">>
OtherWord == <<"o", "t", "h", "e", "r", " ", "w", "o", "r", "d">>

\* The default value of `exec --text` (main.rs:23).
DefaultText == <<"&", "1", "0", "0", ",", "1", "0", ",">> \o SomeWord \o <<",">> \o OtherWord

\* The example line of the documentation, and the same line without its
\* leading field.
ExampleLine == <<"&", "1", "0", "0", ",", "1", "0", ",">> \o SomeWord
ExampleLine3 == <<"&", "1", "0", ",">> \o SomeWord

I32MaxDigits == <<"2", "1", "4", "7", "4", "8", "3", "6", "4", "7">>
I32MinDigits == <<"2", "1", "4", "7", "4", "8", "3", "6", "4", "8">>

\* Longer lines of interest: the ends of the i32 range, one past them, and
\* fields with whitespace on both sides.
LongLines ==
    { DefaultText, ExampleLine, ExampleLine3,
      <<"&">> \o I32MaxDigits \o <<",", "a">>,
      <<"&">> \o I32MinDigits \o <<",", "a">>,
      <<"&", "-">> \o I32MinDigits \o <<",", "a">>,
      <<"&", "-", "2", "1", "4", "7", "4", "8", "3", "6", "4", "9", ",", "a">>,
      <<"&", "+", "0", "0", "7", ",", "a">>,
      <<"&", "9", "9", "9", "9", "9", "9", "9", "9", "9", "9", "9", ",", "a">>,
      <<"&", " ", "-", "1", "2", " ", ",", " ", "a", " ", "b", " ">>,
      <<">", " ", "4", "2", " ", ",", "\t", "a", "\t">>,
      <<"&", "\f", "1", "\f", ",", "\f", "a", "\f">>,
      <<"&", "\n", "-", "1", "\r", ",", "\r", "\n">>,
      <<"&", "U+2003", "1", ",", "a", "U+2028">>,
      <<"&", "U+2003", "1", "U+3000">>,
      <<"&", "1", "U+00A0", "1", ",", "U+0085", "U+1680">>,
      <<"U+2003", "&", "1", ",", "a">>,
      <<"+", "3", ",", "x", ",", "y">>,
      <<"#", "1", ",", "a">> }

Lines == UNION { [1..n -> Alphabet] : n \in 0..MaxLen } \cup LongLines

(***************************************************************************)
(* Constants of the program.                                               *)
(***************************************************************************)
MODS == {"&", ">", "+"}
SEP == ","
I32Max == 2147483647
I32Min == (-I32Max) - 1

(***************************************************************************)
(* Values: Option / Result / a panic that unwinds out of the function.     *)
(***************************************************************************)
Unset == [tag |-> "Unset"]
None == [tag |-> "None"]
Some(v) == [tag |-> "Some", val |-> v]
Ok(v) == [tag |-> "Ok", val |-> v]
Err(e) == [tag |-> "Err", err |-> e]
Panic(m) == [tag |-> "Panic", msg |-> m]

\* enum PartOfCmdKind
Mod(ch) == [kind |-> "Mod", ch |-> ch]
Digit(d) == [kind |-> "Digit", d |-> d]
Word(w) == [kind |-> "Word", w |-> w]

(***************************************************************************)
(* str::trim, str::split and str::parse::<i32>.                            *)
(***************************************************************************)
\* char::is_whitespace, the Unicode White_Space property that str::trim
\* strips: U+0009..U+000D, U+0020, U+0085, U+00A0, U+1680, U+2000..U+200A,
\* U+2028, U+2029, U+202F, U+205F, U+3000.  U+000B has no escape and is
\* written as itself.
WhiteSpace ==
    {"\t", "\n", "", "\f", "\r", " ",
     "U+0085", "U+00A0", "U+1680",
     "U+2000", "U+2001", "U+2002", "U+2003", "U+2004", "U+2005", "U+2006",
     "U+2007", "U+2008", "U+2009", "U+200A",
     "U+2028", "U+2029", "U+202F", "U+205F", "U+3000"}

RECURSIVE TrimStart(_)
TrimStart(s) ==
    IF Len(s) > 0 /\ Head(s) \in WhiteSpace THEN TrimStart(Tail(s)) ELSE s

RECURSIVE TrimEnd(_)
TrimEnd(s) ==
    IF Len(s) > 0 /\ s[Len(s)] \in WhiteSpace
    THEN TrimEnd(SubSeq(s, 1, Len(s) - 1))
    ELSE s

Trim(s) == TrimEnd(TrimStart(s))

\* s.split(sep): the fields between the separators; the empty string has
\* one (empty) field.
RECURSIVE SplitFrom(_, _, _)
SplitFrom(s, sep, cur) ==
    IF Len(s) = 0 THEN <<cur>>
    ELSE IF Head(s) = sep THEN <<cur>> \o SplitFrom(Tail(s), sep, <<>>)
    ELSE SplitFrom(Tail(s), sep, Append(cur, Head(s)))

\* Split that yields no field for an empty remainder.
Split_SkipEmpty(s, sep) == IF Len(s) = 0 THEN <<>> ELSE SplitFrom(s, sep, <<>>)

Split(s, sep) == SplitFrom(s, sep, <<>>)

DigitChars == <<"0", "1", "2", "3", "4", "5", "6", "7", "8", "9">>

IsDigitChar(c) == \E i \in 1..10 : DigitChars[i] = c
DigitVal(c) == (CHOOSE i \in 1..10 : DigitChars[i] = c) - 1

\* The digit loop of i32::from_str: checked_mul by 10, then checked_add
\* (positive) or checked_sub (negative) of the digit; any other character,
\* or leaving the i32 range, is an error.
RECURSIVE ParseDigits(_, _, _)
ParseDigits(s, acc, positive) ==
    IF Len(s) = 0 THEN Ok(acc)
    ELSE IF ~IsDigitChar(Head(s)) THEN Err("InvalidDigit")
    ELSE LET d == DigitVal(Head(s)) IN
         IF positive
         THEN IF acc > (I32Max - d) \div 10 THEN Err("PosOverflow")
              ELSE ParseDigits(Tail(s), acc * 10 + d, positive)
         ELSE IF acc < (I32Min + d + 9) \div 10 THEN Err("NegOverflow")
              ELSE ParseDigits(Tail(s), acc * 10 - d, positive)

ParseI32(s) ==
    IF Len(s) = 0 THEN Err("Empty")
    ELSE IF Head(s) \in {"+", "-"}
         THEN IF Len(s) = 1 THEN Err("InvalidDigit")
              ELSE ParseDigits(Tail(s), 0, Head(s) = "+")
         ELSE ParseDigits(s, 0, TRUE)

\* i32 as Display prints it: decimal digits, "-" first when negative.  The
\* digits are produced from the non-positive value n, so that i32::MIN needs
\* no negation.
RECURSIVE FmtNeg(_)
FmtNeg(n) ==
    LET ld == (10 - (n % 10)) % 10
        rest == (n + ld) \div 10
    IN  IF rest = 0 THEN <<DigitChars[ld + 1]>>
        ELSE FmtNeg(rest) \o <<DigitChars[ld + 1]>>

FmtI32(d) == IF d < 0 THEN <<"-">> \o FmtNeg(d) ELSE FmtNeg(-d)

\* impl fmt::Display for PartOfCmdKind
Display(p) ==
    CASE p.kind = "Mod" -> <<p.ch>>
      [] p.kind = "Digit" -> FmtI32(p.d)
      [] p.kind = "Word" -> p.w

(***************************************************************************)
(* PartOfCmdKind::unwrap_digit / unwrap_word (reached through unwrap<T>).  *)
(***************************************************************************)
unwrap_digit(p) ==
    IF p.kind = "Digit" THEN Ok(p.d) ELSE Panic("expected Digit")

unwrap_word(p) ==
    IF p.kind = "Word" THEN Ok(p.w) ELSE Panic("expected Word")

(***************************************************************************)
(* OrderKind::new and CmdKind::Order.                                      *)
(***************************************************************************)
\* OrderKind::new whose fallback arm maps to Expense.
OrderKindNew_Fallback(ch) ==
    IF ch = "&" THEN Ok("Income") ELSE Ok("Expense")

OrderKindNew(ch) ==
    CASE ch = "&" -> Ok("Income")
      [] ch = ">" -> Ok("Expense")
      [] OTHER -> Err("NoSpecifiedOrderKindError")

Order(o) == [variant |-> "Order", order |-> o]

(***************************************************************************)
(* Cmd::from_str.  `now` is the value Local::now() returned.               *)
(***************************************************************************)
\* The message of Option::unwrap() on None.
UnwrapNone == "called Option::unwrap() on a None value"

\* One field of the line: trimmed, a Digit if it parses as i32, else a Word.
\* Field without line 200 (ch = ch.trim()).
Field_NoTrim(f) ==
    LET d == ParseI32(f)
    IN  IF d.tag = "Ok" THEN Digit(d.val) ELSE Word(f)

Field(f) ==
    LET ch == Trim(f)
        d == ParseI32(ch)
    IN  IF d.tag = "Ok" THEN Digit(d.val) ELSE Word(ch)

\* from_str without the membership test of line 194.
FromStr_NoMarkerCheck(t, now) ==
    IF Len(t) = 0 THEN Panic(UnwrapNone)
    ELSE LET fields == Split(Tail(t), SEP)
         IN  Ok([pack |-> <<Mod(Head(t))>> \o [i \in 1..Len(fields) |-> Field(fields[i])],
                 created_at |-> now])

FromStr(t, now) ==
    IF Len(t) = 0 THEN Panic(UnwrapNone)
    ELSE IF Head(t) \notin MODS THEN Err("ParseCmdError")
    ELSE LET fields == Split(Tail(t), SEP)
         IN  Ok([pack |-> <<Mod(Head(t))>> \o [i \in 1..Len(fields) |-> Field(fields[i])],
                 created_at |-> now])

(***************************************************************************)
(* Cmd::kind_of, Cmd::to_sql and Tr::new.  c is a Cmd; pack[i] of the    *)
(* source is At(c.pack, i).                                                *)
(***************************************************************************)
At(pack, i) == pack[i + 1]

\* kind_of matching on the length alone: [Mod(ch), _, _].
KindOf_LenOnly(c) ==
    IF Len(c.pack) = 3 /\ At(c.pack, 0).kind = "Mod"
    THEN LET o == OrderKindNew(At(c.pack, 0).ch)
         IN  IF o.tag = "Ok" THEN Some(Order(o.val)) ELSE Panic(o.err)
    ELSE None

\* kind_of matching on the marker alone: [Mod(ch), ..].
KindOf_MarkerOnly(c) ==
    IF Len(c.pack) >= 1 /\ At(c.pack, 0).kind = "Mod"
    THEN LET o == OrderKindNew(At(c.pack, 0).ch)
         IN  IF o.tag = "Ok" THEN Some(Order(o.val)) ELSE Panic(o.err)
    ELSE None

KindOf(c) ==
    IF /\ Len(c.pack) = 3
       /\ At(c.pack, 0).kind = "Mod"
       /\ At(c.pack, 1).kind = "Digit"
       /\ At(c.pack, 2).kind = "Word"
    THEN LET o == OrderKindNew(At(c.pack, 0).ch)
         IN  IF o.tag = "Ok" THEN Some(Order(o.val)) ELSE Panic(o.err)
    ELSE None

IsIncome(k) == k.tag = "Some" /\ k.val.order = "Income"

InsertPrefix == "INSERT INTO transaction (created_at, tax, category) VALUES ("

\* The statement without the quotes around the category.
Statement_NoQuotes(created_at, tax, category) ==
    <<InsertPrefix, created_at, ",", " ">> \o tax \o <<",", " ">>
        \o category \o <<")">>

\* The text format! builds; the timestamp's Display is one opaque element.
Statement(created_at, tax, category) ==
    <<InsertPrefix, created_at, ",", " ">> \o tax \o <<",", " ", "'">>
        \o category \o <<"'", ")">>

\* to_sql rendering every classified command, whatever its kind.
ToSql_AnyKind(c) ==
    LET k == KindOf(c)
    IN  IF k.tag = "Panic" THEN k
        ELSE IF k.tag = "Some"
        THEN Some(Statement(c.created_at, Display(At(c.pack, 1)),
                            Display(At(c.pack, 2))))
        ELSE None

ToSql(c) ==
    LET k == KindOf(c)
    IN  IF k.tag = "Panic" THEN k
        ELSE IF IsIncome(k)
        THEN IF Len(c.pack) < 3 THEN Panic("index out of bounds")
             ELSE Some(Statement(c.created_at, Display(At(c.pack, 1)),
                                 Display(At(c.pack, 2))))
        ELSE None

TrNew(c) ==
    LET k == KindOf(c)
    IN  IF k.tag = "Panic" THEN k
        ELSE IF IsIncome(k)
        THEN IF Len(c.pack) < 2 THEN Panic("index out of bounds")
             ELSE LET tax == unwrap_digit(At(c.pack, 1))
                  IN  IF tax.tag = "Panic" THEN tax
                      ELSE IF Len(c.pack) < 3 THEN Panic("index out of bounds")
                      ELSE LET category == unwrap_word(At(c.pack, 2))
                           IN  IF category.tag = "Panic" THEN category
                               ELSE Some([created_at |-> c.created_at,
                                          tax |-> tax.val,
                                          category |-> category.val])
        ELSE None

(***************************************************************************)
(* init(): open (and so create) the database file, create the table if it  *)
(* does not exist.  open_ok: Connection::open succeeded (line 213);        *)
(* execute_ok: conn.execute succeeded (lines 214-224).  The file exists     *)
(* from the open on, also when the execute then fails.                     *)
(***************************************************************************)
NoDb == [file |-> FALSE, table |-> FALSE, rows |-> <<>>]
EmptyDb == [file |-> TRUE, table |-> FALSE, rows |-> <<>>]
ReadyDb == [file |-> TRUE, table |-> TRUE, rows |-> <<>>]

InitDb(d, open_ok, execute_ok) ==
    IF ~open_ok THEN [res |-> Err("rusqlite::Error"), db |-> d]
    ELSE LET opened == [d EXCEPT !.file = TRUE]
         IN  IF ~execute_ok
             THEN [res |-> Err("rusqlite::Error"), db |-> opened]
             ELSE [res |-> Ok("()"), db |-> [opened EXCEPT !.table = TRUE]]

(***************************************************************************)
(* The program: cli::call, then run's two unwraps.                         *)
(***************************************************************************)
Init ==
    /\ command \in {"Exec", "Init"}
    /\ text \in (IF command = "Exec" THEN Lines ELSE {<<>>})
    /\ pc = "call"
    /\ cmd = Unset
    /\ kind = Unset
    /\ sql = Unset
    /\ transaction = Unset
    /\ log = <<>>
    /\ db \in {NoDb, EmptyDb, ReadyDb}
    /\ panicMsg = ""

\* call, Commands::Exec: Cmd::from_str(&text), panic on Err, else run(cmd).
CallExec ==
    /\ pc = "call"
    /\ command = "Exec"
    /\ \E now \in Clock :
         LET r == FromStr(text, now)
         IN  /\ cmd' = r
             /\ pc' = IF r.tag = "Ok" THEN "run_to_sql" ELSE "panic"
             /\ panicMsg' = CASE r.tag = "Ok" -> ""
                              [] r.tag = "Err" -> r.err
                              [] r.tag = "Panic" -> r.msg
    /\ log' = Append(log, "from_str")
    /\ UNCHANGED <<command, text, kind, sql, transaction, db>>

\* run, line 229: println!("{:?}", cmd.to_sql().unwrap()).
RunToSql ==
    /\ pc = "run_to_sql"
    /\ LET s == ToSql(cmd.val)
       IN  /\ sql' = s
           /\ pc' = IF s.tag = "Some" THEN "run_tr_new" ELSE "panic"
           /\ panicMsg' = CASE s.tag = "Some" -> ""
                            [] s.tag = "None" -> UnwrapNone
                            [] s.tag = "Panic" -> s.msg
    /\ kind' = KindOf(cmd.val)
    /\ log' = log \o <<"to_sql", "kind_of">>
    /\ UNCHANGED <<command, text, cmd, transaction, db>>

\* run, lines 230-233: Tr::new(cmd).unwrap(), then the prints.
RunTrNew ==
    /\ pc = "run_tr_new"
    /\ LET t == TrNew(cmd.val)
       IN  /\ transaction' = t
           /\ pc' = IF t.tag = "Some" THEN "done" ELSE "panic"
           /\ panicMsg' = CASE t.tag = "Some" -> ""
                            [] t.tag = "None" -> UnwrapNone
                            [] t.tag = "Panic" -> t.msg
    /\ kind' = KindOf(cmd.val)
    /\ log' = log \o <<"Tr::new", "kind_of">>
    /\ UNCHANGED <<command, text, cmd, sql, db>>

\* call, Commands::Init: init().expect(...).
CallInit ==
    /\ pc = "call"
    /\ command = "Init"
    /\ \E open_ok, execute_ok \in BOOLEAN :
         LET r == InitDb(db, open_ok, execute_ok)
         IN  /\ db' = r.db
             /\ pc' = IF r.res.tag = "Ok" THEN "done" ELSE "panic"
             /\ panicMsg' = IF r.res.tag = "Ok" THEN ""
                             ELSE "Can't initializing database"
    /\ log' = Append(log, "init")
    /\ UNCHANGED <<command, text, cmd, kind, sql, transaction>>

Next == CallExec \/ RunToSql \/ RunTrNew \/ CallInit

Spec == Init /\ [][Next]_vars

(***************************************************************************)
(* The functions on their own: every line is tokenized, and kind_of,       *)
(* to_sql and Tr::new are each applied to every Cmd the tokenizer returns. *)
(***************************************************************************)
InitFn ==
    /\ command = "Fn"
    /\ text \in Lines
    /\ pc = "fn"
    /\ cmd = Unset
    /\ kind = Unset
    /\ sql = Unset
    /\ transaction = Unset
    /\ log = <<>>
    /\ db = NoDb
    /\ panicMsg = ""

FnFromStr ==
    /\ pc = "fn"
    /\ cmd.tag = "Unset"
    /\ \E now \in Clock : cmd' = FromStr(text, now)
    /\ UNCHANGED <<command, text, pc, kind, sql, transaction, log, db, panicMsg>>

FnKindOf ==
    /\ pc = "fn"
    /\ cmd.tag = "Ok"
    /\ kind.tag = "Unset"
    /\ kind' = KindOf(cmd.val)
    /\ UNCHANGED <<command, text, pc, cmd, sql, transaction, log, db, panicMsg>>

FnToSql ==
    /\ pc = "fn"
    /\ cmd.tag = "Ok"
    /\ sql.tag = "Unset"
    /\ sql' = ToSql(cmd.val)
    /\ UNCHANGED <<command, text, pc, cmd, kind, transaction, log, db, panicMsg>>

FnTrNew ==
    /\ pc = "fn"
    /\ cmd.tag = "Ok"
    /\ transaction.tag = "Unset"
    /\ transaction' = TrNew(cmd.val)
    /\ UNCHANGED <<command, text, pc, cmd, kind, sql, log, db, panicMsg>>

NextFn == FnFromStr \/ FnKindOf \/ FnToSql \/ FnTrNew

SpecFn == InitFn /\ [][NextFn]_vars


(***************************************************************************)
(* What the documentation says of a line, stated on the text itself and    *)
(* not through the tokenizer.                                              *)
(***************************************************************************)
\* s without its surrounding whitespace.
Stripped(s) ==
    LET keep == {i \in 1..Len(s) : s[i] \notin WhiteSpace}
    IN  IF keep = {} THEN <<>>
        ELSE SubSeq(s, CHOOSE i \in keep : \A j \in keep : i <= j,
                       CHOOSE i \in keep : \A j \in keep : i >= j)

Unsigned(s) == IF Len(s) > 0 /\ s[1] \in {"+", "-"} THEN Tail(s) ELSE s

\* s is a decimal integer: an optional sign and at least one digit.
IsIntLiteral(s) ==
    /\ Len(Unsigned(s)) > 0
    /\ \A i \in 1..Len(Unsigned(s)) : IsDigitChar(Unsigned(s)[i])

RECURSIVE DropZeros(_)
DropZeros(s) == IF Len(s) > 1 /\ Head(s) = "0" THEN DropZeros(Tail(s)) ELSE s

\* a <= b for two digit strings of the same length.
DigitsLeq(a, b) ==
    \/ a = b
    \/ \E i \in 1..Len(a) :
         /\ \A j \in 1..(i - 1) : a[j] = b[j]
         /\ DigitVal(a[i]) < DigitVal(b[i])

\* The integer literal s lies in -2^31 .. 2^31 - 1.
InI32(s) ==
    LET m == DropZeros(Unsigned(s))
        lim == IF s[1] = "-" THEN I32MinDigits ELSE I32MaxDigits
    IN  \/ Len(m) < Len(lim)
        \/ Len(m) = Len(lim) /\ DigitsLeq(m, lim)

\* The value of an integer literal that lies in the i32 range.
RECURSIVE ValueFrom(_, _, _)
ValueFrom(ds, acc, sgn) ==
    IF Len(ds) = 0 THEN acc
    ELSE ValueFrom(Tail(ds), acc * 10 + sgn * DigitVal(Head(ds)), sgn)

Written(s) == ValueFrom(Unsigned(s), 0, IF s[1] = "-" THEN -1 ELSE 1)

Commas(t) == {i \in 2..Len(t) : t[i] = ","}
TwoFields(t) == Len(t) > 0 /\ Cardinality(Commas(t)) = 1
F1(t) == SubSeq(t, 2, (CHOOSE i \in Commas(t) : TRUE) - 1)
F2(t) == SubSeq(t, (CHOOSE i \in Commas(t) : TRUE) + 1, Len(t))

\* A field the grammar types as Number / as Text.
IsNumberField(f) == IsIntLiteral(Stripped(f)) /\ InI32(Stripped(f))

\* <marker><number>,<text>
LineShape3(t) == TwoFields(t) /\ IsNumberField(F1(t)) /\ ~IsNumberField(F2(t))

\* &<int>,<word>: one integer field, one non-integer field.
IsIncomeLine(t) ==
    /\ TwoFields(t)
    /\ Head(t) = "&"
    /\ IsIntLiteral(Stripped(F1(t)))
    /\ ~IsIntLiteral(Stripped(F2(t)))

\* The token sequence is exactly [Marker, Number, Text].
PackShape3(pack) ==
    /\ Len(pack) = 3
    /\ pack[1].kind = "Mod"
    /\ pack[2].kind = "Digit"
    /\ pack[3].kind = "Word"

Tokenized == cmd.tag = "Ok"
AllApplied ==
    Tokenized /\ kind.tag # "Unset" /\ sql.tag # "Unset" /\ transaction.tag # "Unset"

(***************************************************************************)
(* C1                                                                      *)
(***************************************************************************)
\* C1 as stated: every line &<int>,<word> tokenizes, classifies and builds
\* a record whose category is the trimmed second field (and whose tax is the
\* integer of the first).
C1_AsStated ==
    (pc = "fn" /\ IsIncomeLine(text) /\ cmd.tag # "Unset") =>
        /\ cmd.tag = "Ok"
        /\ kind.tag # "Unset" => kind.tag = "Some"
        /\ transaction.tag # "Unset" =>
             /\ transaction.tag = "Some"
             /\ transaction.val.category = Stripped(F2(text))

\* C1 (amended): for every line &<int>,<word> whose integer lies in the
\* 32-bit signed range, from_str succeeds, kind_of classifies it and Tr::new
\* yields a record with tax = that integer and category = the second field
\* without its surrounding whitespace.
C1_IncomeRecord ==
    (pc = "fn" /\ IsIncomeLine(text) /\ InI32(Stripped(F1(text)))
        /\ cmd.tag # "Unset") =>
        /\ cmd.tag = "Ok"
        /\ kind.tag # "Unset" => IsIncome(kind)
        /\ transaction.tag # "Unset" =>
             /\ transaction.tag = "Some"
             /\ transaction.val.tax = Written(Stripped(F1(text)))
             /\ transaction.val.category = Stripped(F2(text))

\* An income line with whitespace around both fields has produced a record.
C1_Witness ==
    /\ pc = "fn"
    /\ IsIncomeLine(text)
    /\ InI32(Stripped(F1(text)))
    /\ Stripped(F1(text)) # F1(text)
    /\ Stripped(F2(text)) # F2(text)
    /\ kind.tag = "Some"
    /\ transaction.tag = "Some"

(***************************************************************************)
(* C2                                                                      *)
(***************************************************************************)
\* C2: a '>' line of shape [Marker, Number, Text] classifies as Expense,
\* to_sql and Tr::new yield None, and the execute operation does not end in
\* a panic.
C2_ExpenseNoCrash ==
    (command = "Exec" /\ Tokenized /\ PackShape3(cmd.val.pack)
        /\ cmd.val.pack[1].ch = ">") =>
        /\ KindOf(cmd.val).tag = "Some"
        /\ KindOf(cmd.val).val.order = "Expense"
        /\ ToSql(cmd.val).tag = "None"
        /\ TrNew(cmd.val).tag = "None"
        /\ pc # "panic"

(***************************************************************************)
(* C3                                                                      *)
(***************************************************************************)
\* C3 as stated: every '+' line tokenizes, and kind_of fails with
\* NoSpecifiedOrderKind whatever the fields are.
C3_AsStated ==
    (pc = "fn" /\ Len(text) > 0 /\ Head(text) = "+" /\ cmd.tag # "Unset") =>
        /\ cmd.tag = "Ok"
        /\ kind.tag # "Unset" =>
             kind.tag = "Panic" /\ kind.msg = "NoSpecifiedOrderKindError"

\* C3 (amended): every '+' line tokenizes; kind_of fails with
\* NoSpecifiedOrderKind when the fields are one number followed by one
\* text, and returns no classification for every other '+' line.
C3_PlusMarker ==
    (pc = "fn" /\ Len(text) > 0 /\ Head(text) = "+" /\ cmd.tag # "Unset") =>
        /\ cmd.tag = "Ok"
        /\ kind.tag # "Unset" =>
             IF LineShape3(text)
             THEN kind.tag = "Panic" /\ kind.msg = "NoSpecifiedOrderKindError"
             ELSE kind.tag = "None"

\* kind_of has failed on a '+' line of the three-token shape.
C3_Witness ==
    /\ pc = "fn"
    /\ Len(text) > 0 /\ Head(text) = "+"
    /\ LineShape3(text)
    /\ kind.tag = "Panic"

(***************************************************************************)
(* C4                                                                      *)
(***************************************************************************)
Ten == <<"1", "0">>

\* C4 as stated: &100,10,some word gives the record (T, 10, some word) and
\* the statement inserting (T, 10, 'some word').
C4_AsStated ==
    (pc = "fn" /\ text = ExampleLine /\ Tokenized) =>
        /\ transaction.tag # "Unset" =>
             /\ transaction.tag = "Some"
             /\ transaction.val.created_at = cmd.val.created_at
             /\ transaction.val.tax = 10
             /\ transaction.val.category = SomeWord
        /\ sql.tag # "Unset" =>
             /\ sql.tag = "Some"
             /\ sql.val = <<InsertPrefix, cmd.val.created_at, ",", " ">> \o Ten
                            \o <<",", " ", "'">> \o SomeWord \o <<"'", ")">>

\* C4 (amended): &100,10,some word tokenizes to the four tokens
\* [&, 100, 10, some word], is not classified and gives neither a record nor
\* a statement; &10,some word tokenized at T gives the record
\* (T, 10, some word) and the statement inserting (T, 10, 'some word').
C4_Example ==
    /\ (pc = "fn" /\ text = ExampleLine /\ cmd.tag # "Unset") =>
        /\ cmd.tag = "Ok"
        /\ cmd.val.pack = <<Mod("&"), Digit(100), Digit(10), Word(SomeWord)>>
        /\ kind.tag \in {"Unset", "None"}
        /\ sql.tag \in {"Unset", "None"}
        /\ transaction.tag \in {"Unset", "None"}
    /\ (pc = "fn" /\ text = ExampleLine3 /\ cmd.tag # "Unset") =>
        /\ cmd.tag = "Ok"
        /\ transaction.tag # "Unset" =>
             /\ transaction.tag = "Some"
             /\ transaction.val.created_at = cmd.val.created_at
             /\ transaction.val.tax = 10
             /\ transaction.val.category = SomeWord
        /\ sql.tag # "Unset" =>
             /\ sql.tag = "Some"
             /\ sql.val = <<InsertPrefix, cmd.val.created_at, ",", " ">> \o Ten
                            \o <<",", " ", "'">> \o SomeWord \o <<"'", ")">>

\* Every function has been applied to the tokens of &100,10,some word.
C4_Witness ==
    /\ pc = "fn"
    /\ text = ExampleLine
    /\ AllApplied
    /\ Len(cmd.val.pack) = 4

(***************************************************************************)
(* C5                                                                      *)
(***************************************************************************)
\* C5: from_str returns a Command or the ParseCmdError, for every line.
C5_TokenizerTotal ==
    (pc = "fn" /\ cmd.tag # "Unset") =>
        \/ cmd.tag = "Ok"
        \/ cmd.tag = "Err" /\ cmd.err = "ParseCmdError"

(***************************************************************************)
(* C6                                                                      *)
(***************************************************************************)
MarkerOnly == Len(text) = 1 /\ text[1] \in {"&", ">", "+"}

\* C6 as stated: a marker-only line tokenizes to exactly [Marker] and is
\* not classified.
C6_AsStated ==
    (pc = "fn" /\ MarkerOnly /\ cmd.tag # "Unset") =>
        /\ cmd.tag = "Ok"
        /\ cmd.val.pack = <<Mod(text[1])>>
        /\ kind.tag \in {"Unset", "None"}

\* C6 (amended): a marker-only line tokenizes to the two tokens
\* [Marker, Text("")] and is not classified.
C6_MarkerOnly ==
    (pc = "fn" /\ MarkerOnly /\ cmd.tag # "Unset") =>
        /\ cmd.tag = "Ok"
        /\ Len(cmd.val.pack) = 2
        /\ cmd.val.pack = <<Mod(text[1]), Word(<<>>)>>
        /\ kind.tag \in {"Unset", "None"}

\* kind_of has been applied to the tokens of a marker-only line.
C6_Witness == pc = "fn" /\ MarkerOnly /\ Tokenized /\ kind.tag = "None"

(***************************************************************************)
(* C7                                                                      *)
(***************************************************************************)
BadMarker == Len(text) > 0 /\ Head(text) \notin {"&", ">", "+"}

\* C7: for a line whose first character is no marker, from_str returns
\* ParseCmdError and exec ends in the panic reporting it, with kind_of,
\* to_sql and Tr::new never called.
C7_MalformedIsFatal ==
    (command = "Exec" /\ BadMarker /\ pc # "call") =>
        /\ cmd.tag = "Err" /\ cmd.err = "ParseCmdError"
        /\ pc = "panic"
        /\ panicMsg = "ParseCmdError"
        /\ log = <<"from_str">>
        /\ kind.tag = "Unset" /\ sql.tag = "Unset" /\ transaction.tag = "Unset"
        /\ ~ENABLED Next

\* exec has ended on a line that starts with a character in no field role.
C7_Witness == command = "Exec" /\ BadMarker /\ pc = "panic" /\ Len(text) > 1

(***************************************************************************)
(* C8                                                                      *)
(***************************************************************************)
\* C8: for a Command whose tokens are not exactly [Marker, Number, Text],
\* kind_of, to_sql and Tr::new all return None.
C8_UnmatchedShape ==
    (pc = "fn" /\ Tokenized /\ ~PackShape3(cmd.val.pack)) =>
        /\ kind.tag \in {"Unset", "None"}
        /\ sql.tag \in {"Unset", "None"}
        /\ transaction.tag \in {"Unset", "None"}

\* The three functions have been applied to three tokens of the wrong types.
C8_Witness ==
    /\ pc = "fn"
    /\ AllApplied
    /\ Len(cmd.val.pack) = 3
    /\ ~PackShape3(cmd.val.pack)

(***************************************************************************)
(* C9                                                                      *)
(***************************************************************************)
\* C9 as stated: a statement exists only once classification has succeeded
\* and the record is built; a run that ended in a panic generated none.
C9_AsStated ==
    command = "Exec" =>
        /\ sql.tag = "Some" => (kind.tag = "Some" /\ transaction.tag = "Some")
        /\ pc = "panic" => sql.tag # "Some"

C9_Order ==
    command = "Exec" =>
        /\ sql.tag = "Some" => ("kind_of" \in {log[i] : i \in 1..Len(log)} /\ IsIncome(kind))
        /\ transaction.tag # "Unset" => sql.tag = "Some"
        /\ pc = "panic" => (sql.tag # "Some" /\ transaction.tag # "Some")
        /\ db.rows = <<>>

\* C9 (amended): in every run of exec the statement is generated only after
\* classification has succeeded as Income and before the record is built
\* (Tr::new runs only once the statement exists); no statement is handed to
\* the store; a run that ends in a panic has generated no statement and no
\* record; exec never changes the store.
C9_StatementAfterClassification ==
    /\ []C9_Order
    /\ [][command = "Exec" => db' = db]_vars

\* A run of exec has ended in the panic of line 229 on a tokenized line.
C9_Witness == command = "Exec" /\ pc = "panic" /\ Tokenized /\ sql.tag = "None"

(***************************************************************************)
(* C10                                                                     *)
(***************************************************************************)
ExtractionPanics == {"expected Digit", "expected Word", "index out of bounds"}

\* C10: on every Command of the tokenizer, Tr::new never panics in
\* unwrap_digit, unwrap_word or the indexing of pack; when it has read the
\* two fields, pack[1] is a Digit and pack[2] a Word.
C10_ExtractionSafe ==
    (pc = "fn" /\ Tokenized /\ transaction.tag # "Unset") =>
        /\ transaction.tag = "Panic" => transaction.msg \notin ExtractionPanics
        /\ transaction.tag = "Some" =>
             /\ Len(cmd.val.pack) >= 3
             /\ At(cmd.val.pack, 1).kind = "Digit"
             /\ At(cmd.val.pack, 2).kind = "Word"
             /\ transaction.val.tax = At(cmd.val.pack, 1).d
             /\ transaction.val.category = At(cmd.val.pack, 2).w

\* Tr::new has read both fields of a Command.
C10_Witness == pc = "fn" /\ Tokenized /\ transaction.tag = "Some"

=============================================================================
